---- MODULE Spec2Model ----
(***************************************************************************)
(* A model of scanner/qr_scanner.py: the QRScanner object (cooldown gate,  *)
(* scan pipeline, control loop, cleanup) and the two remote calls it makes. *)
(* Time is in whole seconds.  None is the string "None".                    *)
(***************************************************************************)
EXTENDS Integers, Sequences, FiniteSets, TLC

\* ---------------------------------------------------------------- bounds
\* The wall clock (time.time()) is followed from StartTime up to MaxTime.
MaxTime == 8
\* The longest a non-suppressed process_qr call blocks on its remote calls.
MaxCallDur == 1

\* How far apart the two accepted calls kept in accLog can be.
HistoryWindow == 3

\* Any epoch time is at least the cooldown window away from last_scan_time = 0.
StartTime == 3

\* ------------------------------------------------------- program constants
scan_cooldown == 3
info_duration == 5

None == "None"
Codes == {"A", "B"}

VARIABLES
  clock,                \* time.time()
  last_scanned_qr,      \* self.last_scanned_qr
  last_scan_time,       \* self.last_scan_time
  sound_enabled,        \* self.sound_enabled
  running,              \* self.running
  current_display_info, \* self.current_display_info
  info_display_time,    \* self.info_display_time
  cap,                  \* self.cap: "None", "unopened", "open", "released"
  mixer,                \* pygame.mixer: "uninit", "init", "quit"
  lastCall,             \* history: the most recent process_qr call
  accLog,               \* history: the accepted direct calls before lastCall
  lastRun,              \* history: how the most recent run() went
  frame,                \* history: the frame the most recent tick drew
  startup               \* main(): the startup probe and what it met

vars == <<clock, last_scanned_qr, last_scan_time, sound_enabled, running,
          current_display_info, info_display_time, cap, mixer,
          lastCall, accLog, lastRun, frame, startup>>

\* ------------------------------------------------------ service responses
\* What GET /qr/{id}/validate can do, as seen by validate_qr_api.
ValidateFailures ==
  { [kind |-> k, valid |-> "n/a", accion |-> "n/a", empleado_info |-> "n/a"] :
      k \in {"timeout", "connection_error", "status", "bad_json", "not_object"} }

ValidateBodies ==
  [kind : {"ok"},
   valid : {"true", "false", "missing"},
   accion : {"ENTRADA", "SALIDA", "COMPLETADO", "missing"},
   empleado_info : {"emp", "missing"}]

ValidateResponses == ValidateFailures \cup ValidateBodies

\* What POST /qr/{id}/scan can do, as seen by record_scan_api.
RecordFailures ==
  { [kind |-> k, es_entrada |-> "n/a", hora_entrada |-> "n/a",
     hora_salida |-> "n/a", detail |-> d] :
      k \in {"timeout", "connection_error", "bad_json", "not_object"},
      d \in {"n/a"} }
  \cup
  { [kind |-> "status", es_entrada |-> "n/a", hora_entrada |-> "n/a",
     hora_salida |-> "n/a", detail |-> d] :
      d \in {"detail", "missing", "bad_json"} }

RecordBodies ==
  [kind : {"ok"},
   es_entrada : {"true", "false", "missing"},
   hora_entrada : {"h_in", "missing"},
   hora_salida : {"h_out", "missing"},
   detail : {"n/a"}]

RecordResponses == RecordFailures \cup RecordBodies

\* dict.get(key, default) on a body field that is either set or missing.
Get(field, default) == IF field = "missing" THEN default ELSE field

\* Python truthiness of a body field: missing/None/false are falsy.
Truthy(field) == field \notin {"missing", "false", None}

\* ------------------------------------------------------- validate_qr_api
validate_qr_api(resp) ==
  CASE resp.kind = "ok" ->
         [valid |-> Truthy(Get(resp.valid, "false")),
          message |-> "body message",
          accion |-> Get(resp.accion, "UNKNOWN"),
          empleado_id |-> IF Truthy(resp.empleado_info) THEN "42" ELSE None,
          empleado_info |-> Get(resp.empleado_info, None)]
    [] resp.kind = "status" ->
         [valid |-> FALSE, message |-> "Error de API: 500", accion |-> "ERROR",
          empleado_id |-> None, empleado_info |-> None]
    [] resp.kind = "timeout" ->
         [valid |-> FALSE,
          message |-> "Timeout: No se pudo conectar con el servidor",
          accion |-> "ERROR", empleado_id |-> None, empleado_info |-> None]
    [] resp.kind = "connection_error" ->
         [valid |-> FALSE,
          message |-> "Error: No se pudo conectar con el servidor",
          accion |-> "ERROR", empleado_id |-> None, empleado_info |-> None]
    [] OTHER ->  \* response.json() or data.get(...) raised
         [valid |-> FALSE, message |-> "Error inesperado", accion |-> "ERROR",
          empleado_id |-> None, empleado_info |-> None]

\* -------------------------------------------------------- record_scan_api
\* The event time of a 200 body, mutated: hora_entrada whatever es_entrada is.
fecha_escaneoFromEntrada(resp) == Get(resp.hora_entrada, None)

\* fecha_escaneo of a 200 body: data.get("hora_entrada") if
\* data.get("es_entrada") else data.get("hora_salida").
fecha_escaneo(resp) ==
  IF Truthy(resp.es_entrada) THEN Get(resp.hora_entrada, None)
  ELSE Get(resp.hora_salida, None)

record_scan_api(resp) ==
  CASE resp.kind = "ok" ->
         [success |-> TRUE,
          message |-> "Escaneo registrado exitosamente",
          empleado_id |-> "42",
          empleado_info |-> "emp",
          is_first_scan |-> Truthy(Get(resp.es_entrada, "true")),
          fecha_escaneo |-> fecha_escaneo(resp),
          accion |-> IF Truthy(resp.es_entrada) THEN "ENTRADA" ELSE "SALIDA"]
    [] resp.kind = "status" ->
         [success |-> FALSE,
          message |-> IF resp.detail = "detail" THEN "detail" ELSE "Status 500",
          empleado_id |-> None, empleado_info |-> None, is_first_scan |-> None,
          fecha_escaneo |-> None, accion |-> None]
    [] OTHER ->  \* any exception of the request or of the body's parsing
         [success |-> FALSE, message |-> "Error",
          empleado_id |-> None, empleado_info |-> None, is_first_scan |-> None,
          fecha_escaneo |-> None, accion |-> None]

\* ------------------------------------------------------------- play_sound
\* The sounds play_sound(sound_type) loads and plays: none with sound off, none
\* for an unknown type, none when the mixer is not initialised (load raises
\* and the exception is logged).
play_sound(sound_type) ==
  IF ~sound_enabled THEN <<>>
  ELSE IF sound_type \in {"success", "error", "warning"} /\ mixer = "init"
    THEN <<sound_type>>
  ELSE <<>>

\* ------------------------------------------------------------- process_qr
\* The cooldown test of process_qr, mutated: the window's end is included.
InCooldownInclusive(qr_id, current_time) ==
  /\ qr_id = last_scanned_qr
  /\ current_time - last_scan_time <= scan_cooldown

\* The cooldown test of process_qr, mutated: any code is held back.
InCooldownAnyCode(qr_id, current_time) ==
  current_time - last_scan_time < scan_cooldown

\* The cooldown test of process_qr.
InCooldown(qr_id, current_time) ==
  /\ qr_id = last_scanned_qr
  /\ current_time - last_scan_time < scan_cooldown

\* The cooldown slot after a suppressed call, mutated: the sighting restarts
\* the window.
SuppressedScanRestartsWindow(qr_id, current_time) ==
  [last_scanned_qr |-> qr_id, last_scan_time |-> current_time]

\* The cooldown slot after a suppressed call: "return None" comes before the
\* two assignments, so the slot is as it was.
SuppressedScan(qr_id, current_time) ==
  [last_scanned_qr |-> last_scanned_qr, last_scan_time |-> last_scan_time]

\* The cooldown slot of an accepted call, mutated: the slot is left as it was.
AcceptScanForgotten(qr_id, current_time) ==
  [last_scanned_qr |-> last_scanned_qr, last_scan_time |-> last_scan_time]

\* The cooldown slot an accepted call writes before anything else.
AcceptScan(qr_id, current_time) ==
  [last_scanned_qr |-> qr_id, last_scan_time |-> current_time]

\* "if not validation.valid", mutated: nothing is rejected.
IsInvalidNever(validation) == FALSE

\* "if not validation.valid"
IsInvalid(validation) == ~validation.valid

\* "if validation.accion == COMPLETADO", mutated: an action that is neither
\* ENTRADA nor SALIDA stops the pipeline too.
IsCompletedOrUnknown(validation) ==
  validation.accion \notin {"ENTRADA", "SALIDA"}

\* "if validation.accion == COMPLETADO", mutated: the test is dropped.
IsCompletedNever(validation) == FALSE

\* "if validation.accion == COMPLETADO"
IsCompleted(validation) == validation.accion = "COMPLETADO"

\* "if not scan_result.success"
RecordFailed(scan_result) == ~scan_result.success

\* PASO 1, mutated: validate is asked again.
ValidateCallsTwice(qr_id) == << <<"validate", qr_id>>, <<"validate", qr_id>> >>

\* PASO 1: the remote calls made by self.validate_qr_api(qr_id).
ValidateCalls(qr_id) == << <<"validate", qr_id>> >>

\* PASO 3: the remote calls made by self.record_scan_api(qr_id).
RecordCalls(qr_id) == << <<"record", qr_id>> >>

\* The play_sound argument of the rejected branch.
RejectedCue == "error"

\* The play_sound argument of the COMPLETADO branch, mutated.
CompletedCueSuccess == "success"

\* The play_sound argument of the COMPLETADO branch.
CompletedCue == "warning"

\* The play_sound argument of the record-failed branch.
RecordFailedCue == "error"

\* The play_sound argument of the recorded branch.
RecordedCue == "success"

NoResult == [type |-> None]

\* One process_qr(qr_id) call at time clock with the service answering vresp to
\* validate and rresp to record: what it returns, the remote calls and the
\* play_sound calls it makes in order, and the cooldown state it leaves.
process_qr(qr_id, vresp, rresp) ==
  LET current_time == clock
      validation == validate_qr_api(vresp)
      scan_result == record_scan_api(rresp)
      base == [qr_id |-> qr_id, time |-> current_time, accepted |-> TRUE]
                @@ AcceptScan(qr_id, current_time)
  IN IF InCooldown(qr_id, current_time)
       THEN [qr_id |-> qr_id, time |-> current_time, accepted |-> FALSE,
             ret |-> NoResult, calls |-> <<>>, cues |-> <<>>]
              @@ SuppressedScan(qr_id, current_time)
     ELSE IF IsInvalid(validation)
       THEN base @@ [ret |-> [type |-> "validation", data |-> validation,
                              success |-> FALSE],
                     calls |-> ValidateCalls(qr_id),
                     cues |-> <<RejectedCue>>]
     ELSE IF IsCompleted(validation)
       THEN base @@ [ret |-> [type |-> "validation", data |-> validation,
                              success |-> TRUE],
                     calls |-> ValidateCalls(qr_id),
                     cues |-> <<CompletedCue>>]
     ELSE IF RecordFailed(scan_result)
       THEN base @@ [ret |-> [type |-> "scan_error", data |-> scan_result,
                              success |-> FALSE],
                     calls |-> ValidateCalls(qr_id) \o RecordCalls(qr_id),
                     cues |-> <<RecordFailedCue>>]
     ELSE base @@ [ret |-> [type |-> "scan_success", data |-> scan_result,
                            success |-> TRUE],
                   calls |-> ValidateCalls(qr_id) \o RecordCalls(qr_id),
                   cues |-> <<RecordedCue>>]

\* A remote call that was not made has no response.
NoResponse == [kind |-> None]

\* The history record of a process_qr call.
CallRecord(r, vresp, rresp) ==
  [qr_id |-> r.qr_id, time |-> r.time, accepted |-> r.accepted,
   ret |-> r.ret, calls |-> r.calls, cues |-> r.cues,
   played |-> IF r.cues = <<>> THEN <<>> ELSE play_sound(r.cues[1]),
   vresp |-> IF r.accepted THEN vresp ELSE NoResponse,
   rresp |-> IF \E i \in 1..Len(r.calls) : r.calls[i][1] = "record"
               THEN rresp ELSE NoResponse]

NoCall == [qr_id |-> None, accepted |-> FALSE]

\* accLog, the log kept of the calls a caller makes directly, once lastCall is
\* no longer the most recent call: an accepted call
\* is appended, and the one before it is kept only if it is less than
\* HistoryWindow seconds older.
PushCall ==
  IF ~lastCall.accepted THEN accLog
  ELSE LET s == [qr_id |-> lastCall.qr_id, time |-> lastCall.time,
                 success |-> lastCall.ret.success]
       IN IF accLog # <<>> /\ s.time - accLog[Len(accLog)].time < HistoryWindow
            THEN <<accLog[Len(accLog)], s>>
            ELSE <<s>>

\* The record responses a process_qr call can meet: record is only called after
\* a valid validation that is not COMPLETADO.
RecordReached(vresp) ==
  LET validation == validate_qr_api(vresp)
  IN ~IsInvalid(validation) /\ ~IsCompleted(validation)

\* ------------------------------------------------------ get_display_color
\* The BGR triples of get_display_color.
Red == <<0, 0, 255>>
Green == <<0, 255, 0>>
Yellow == <<0, 255, 255>>
Magenta == <<255, 0, 255>>

\* get_display_color, mutated: the success flag is not looked at.
get_display_colorIgnoringSuccess(accion, success) ==
  CASE accion \in {"ENTRADA", "ENTRADA_REGISTRADA"} -> Green
    [] accion \in {"SALIDA", "SALIDA_REGISTRADA"} -> Yellow
    [] accion = "COMPLETADO" -> Magenta
    [] OTHER -> Red

get_display_color(accion, success) ==
  IF ~success THEN Red
  ELSE CASE accion \in {"ENTRADA", "ENTRADA_REGISTRADA"} -> Green
         [] accion \in {"SALIDA", "SALIDA_REGISTRADA"} -> Yellow
         [] accion = "COMPLETADO" -> Magenta
         [] OTHER -> Red

\* ---------------------------------------------------- format_display_info
\* The event-time strings a record body is given under SpecRender: UTC
\* instants written with Z and with +00:00, one of them before 05:00, a time
\* with its own offset, a naive time, and strings that are not ISO times.
Timestamps ==
  {"2024-01-15T13:00:00Z", "2024-01-15T03:30:15Z", "2024-01-15T13:00:00+00:00",
   "2024-01-15T08:00:00-05:00", "2024-01-15T13:00:00", "2024-01-15T25:00:00Z",
   "not-a-date", ""}

NotIso == [date |-> None]

\* The characters of an event-time string, read as date, time of day and
\* zone designator; NotIso for a string that has no such reading.
IsoFields(text) ==
  CASE text = "2024-01-15T13:00:00Z" ->
         [date |-> "2024-01-15", hour |-> 13, minute |-> 0, second |-> 0,
          zone |-> "Z"]
    [] text = "2024-01-15T03:30:15Z" ->
         [date |-> "2024-01-15", hour |-> 3, minute |-> 30, second |-> 15,
          zone |-> "Z"]
    [] text = "2024-01-15T13:00:00+00:00" ->
         [date |-> "2024-01-15", hour |-> 13, minute |-> 0, second |-> 0,
          zone |-> "+00:00"]
    [] text = "2024-01-15T08:00:00-05:00" ->
         [date |-> "2024-01-15", hour |-> 8, minute |-> 0, second |-> 0,
          zone |-> "-05:00"]
    [] text = "2024-01-15T13:00:00" ->
         [date |-> "2024-01-15", hour |-> 13, minute |-> 0, second |-> 0,
          zone |-> ""]
    [] text = "2024-01-15T25:00:00Z" ->
         [date |-> "2024-01-15", hour |-> 25, minute |-> 0, second |-> 0,
          zone |-> "Z"]
    [] OTHER -> NotIso

\* fecha.replace('Z', '+00:00') on the fields of the string.
ReplaceZ(fields) ==
  IF fields # NotIso /\ fields.zone = "Z"
    THEN [fields EXCEPT !.zone = "+00:00"]
    ELSE fields

\* datetime.fromisoformat: the datetime of a well-formed string whose fields
\* are in range, a ValueError otherwise.  The datetime keeps the wall time and
\* the offset it was written with.
fromisoformat(fields) ==
  IF /\ fields # NotIso
     /\ fields.hour \in 0..23 /\ fields.minute \in 0..59
     /\ fields.second \in 0..59
     /\ fields.zone \in {"", "+00:00", "-05:00"}
    THEN [ok |-> TRUE, hour |-> fields.hour, minute |-> fields.minute,
          second |-> fields.second, tzinfo |-> fields.zone]
    ELSE [ok |-> FALSE]

\* Two decimal digits.
Two(n) == IF n < 10 THEN "0" \o ToString(n) ELSE ToString(n)

\* fecha_dt.strftime('%H:%M:%S'): the wall time of the datetime as it is.
strftime(dt) == Two(dt.hour) \o ":" \o Two(dt.minute) \o ":" \o Two(dt.second)

\* The time line, mutated: a string that does not parse gives no line.
TimeLineParsedOnly(fecha) ==
  IF fecha \in {None, ""} THEN <<>>
  ELSE LET fecha_dt == fromisoformat(ReplaceZ(IsoFields(fecha)))
       IN IF fecha_dt.ok
            THEN << [icon |-> "clock", text |-> strftime(fecha_dt)] >>
            ELSE <<>>

\* "if scan_result.fecha_escaneo:" with its try/except: no line for None or
\* the empty string, the formatted time of a string that parses, and the
\* string itself when parsing raises.
TimeLine(fecha) ==
  IF fecha \in {None, ""} THEN <<>>
  ELSE LET fecha_dt == fromisoformat(ReplaceZ(IsoFields(fecha)))
       IN IF fecha_dt.ok
            THEN << [icon |-> "clock", text |-> strftime(fecha_dt)] >>
            ELSE << [icon |-> "clock", text |-> fecha] >>

\* The three employee lines, when there is employee information.
EmployeeLines(empleado_info) ==
  IF empleado_info = None THEN <<>>
  ELSE << [icon |-> "person", text |-> "name"],
          [icon |-> "mail", text |-> "email"],
          [icon |-> "office", text |-> "role"] >>

\* An argument left at its default None.
NoArg == [given |-> FALSE]

\* format_display_info(validation, scan_result): the lines of the overlay,
\* each an icon and a text.
format_display_info(validation, scan_result) ==
  IF scan_result # NoArg /\ scan_result.success
    THEN << [icon |-> "check", text |-> scan_result.accion \o " REGISTRADA"] >>
         \o EmployeeLines(scan_result.empleado_info)
         \o TimeLine(scan_result.fecha_escaneo)
         \o << [icon |-> "chart", text |-> "ID: " \o scan_result.empleado_id] >>
  ELSE IF validation # NoArg
    THEN IF validation.valid
           THEN << IF validation.accion = "COMPLETADO"
                     THEN [icon |-> "warning", text |-> "YA COMPLETO HOY"]
                     ELSE [icon |-> "check",
                           text |-> "PREPARADO: " \o validation.accion] >>
                \o EmployeeLines(validation.empleado_info)
                \o << [icon |-> "", text |-> validation.message] >>
           ELSE << [icon |-> "cross", text |-> "QR INVALIDO"],
                   [icon |-> "", text |-> validation.message] >>
  ELSE <<>>

\* ------------------------------------------------------------ the overlay
NoOverlay == [color |-> None, lines |-> <<>>]

\* "if self.current_display_info and time.time() - self.info_display_time <
\* self.info_duration"
DisplayFresh(info, since, now) ==
  info # NoResult /\ now - since < info_duration

\* The colour and lines run() draws for a displayed outcome.
RenderInfo(result_data) ==
  CASE result_data.type = "scan_success" ->
         [color |-> get_display_color(result_data.data.accion, TRUE),
          lines |-> format_display_info(NoArg, result_data.data)]
    [] result_data.type = "validation" ->
         [color |-> get_display_color(result_data.data.accion,
                                      result_data.data.valid),
          lines |-> format_display_info(result_data.data, NoArg)]
    [] OTHER ->
         [color |-> get_display_color("ERROR", FALSE),
          lines |-> << [icon |-> "cross",
                        text |-> "ERROR: " \o result_data.data.message] >>]

\* "if result:" of the loop, mutated: the displayed outcome is written after
\* every process_qr call.
UpdatesDisplayAlways(result) == TRUE

\* "if result:" of the loop: only a returned outcome is displayed.
UpdatesDisplay(result) == result # NoResult

\* ------------------------------------------------------------------- Init
\* No run() yet.
NoRun == [phase |-> "never", camera |-> None, cause |-> None, ev |-> None,
          ticks |-> 0, scans |-> 0]

\* No tick has drawn a frame yet.
NoFrame == [overlay |-> NoOverlay, shown |-> FALSE]

\* The scanner is used as an object, without main().
NoStartup == [phase |-> "none", health |-> None, info |-> None]

\* __init__: the mixer either initialises or, failing, turns sound off.
QRScanner ==
  /\ clock = StartTime
  /\ last_scanned_qr = ""
  /\ last_scan_time = 0
  /\ sound_enabled \in BOOLEAN
  /\ mixer = IF sound_enabled THEN "init" ELSE "uninit"
  /\ running = FALSE
  /\ current_display_info = NoResult
  /\ info_display_time = 0
  /\ cap = None
  /\ lastCall = NoCall
  /\ accLog = <<>>
  /\ lastRun = NoRun
  /\ frame = NoFrame

\* A constructed scanner whose methods are called directly.
Init ==
  /\ QRScanner
  /\ startup = NoStartup

\* Time passes between operations.
AdvanceClock ==
  /\ clock < MaxTime
  /\ clock' = clock + 1
  /\ UNCHANGED <<last_scanned_qr, last_scan_time, sound_enabled, running,
                 current_display_info, info_display_time, cap, mixer,
                 lastCall, accLog, lastRun, frame, startup>>

\* A caller invokes process_qr(qr_id) on the scanner while run() is not
\* executing; the service answers from VR and RR, the call blocks for a time
\* in Durs.
ProcessQrCall(VR, RR, Durs) ==
  /\ ~running
  /\ \E qr_id \in Codes, vresp \in VR :
     \E rresp \in IF RecordReached(vresp) THEN RR ELSE {CHOOSE x \in RR : TRUE} :
     \E dur \in Durs :
       LET r == process_qr(qr_id, vresp, rresp) IN
       /\ clock + dur <= MaxTime
       /\ r.accepted \/ dur = 0
       /\ last_scanned_qr' = r.last_scanned_qr
       /\ last_scan_time' = r.last_scan_time
       /\ clock' = clock + dur
       /\ lastCall' = CallRecord(r, vresp, rresp)
       /\ accLog' = PushCall
  /\ UNCHANGED <<sound_enabled, running, current_display_info,
                 info_display_time, cap, mixer, lastRun, frame, startup>>

\* Representative answers of the service, one per branch of process_qr.
TimedValidate ==
  { v \in ValidateResponses :
      \/ v.kind = "timeout"
      \/ v.kind = "ok" /\ v.empleado_info = "emp" /\ v.valid = "false"
                       /\ v.accion = "missing"
      \/ v.kind = "ok" /\ v.empleado_info = "emp" /\ v.valid = "true"
                       /\ v.accion \in {"ENTRADA", "COMPLETADO"} }

TimedRecord ==
  { r \in RecordResponses :
      \/ r.kind = "status" /\ r.detail = "detail"
      \/ r.kind = "ok" /\ r.es_entrada = "true" /\ r.hora_entrada = "h_in"
                       /\ r.hora_salida = "missing" }

\* process_qr called at arbitrary times.
ProcessQrTimed == ProcessQrCall(TimedValidate, TimedRecord, 0..MaxCallDur)

\* process_qr called back to back under every answer of the service.
ProcessQrAnswered == ProcessQrCall(ValidateResponses, RecordResponses, {0})

NextCalls ==
  \/ AdvanceClock
  \/ ProcessQrTimed

SpecCalls == Init /\ [][NextCalls]_vars

SpecService == Init /\ [][ProcessQrAnswered]_vars

\* ------------------------------------------------------ initialize_camera
\* What cv2.VideoCapture(CAMERA_INDEX) and the three cap.set calls can do.
CameraOutcomes == {"opened", "not_opened", "ctor_raised", "set_raised"}

\* initialize_camera(), mutated: isOpened() is not looked at.
initialize_cameraUnchecked(outcome) ==
  CASE outcome = "opened" -> [ok |-> TRUE, cap |-> "open"]
    [] outcome = "not_opened" -> [ok |-> TRUE, cap |-> "unopened"]
    [] outcome = "ctor_raised" -> [ok |-> FALSE, cap |-> cap]
    [] outcome = "set_raised" -> [ok |-> FALSE, cap |-> "open"]

\* initialize_camera(): its return value and self.cap afterwards.
initialize_camera(outcome) ==
  CASE outcome = "opened" -> [ok |-> TRUE, cap |-> "open"]
    [] outcome = "not_opened" -> [ok |-> FALSE, cap |-> "unopened"]
    [] outcome = "ctor_raised" -> [ok |-> FALSE, cap |-> cap]
    [] outcome = "set_raised" -> [ok |-> FALSE, cap |-> "open"]

\* ---------------------------------------------------------------- cleanup
\* cleanup(), mutated: the camera is not released.
cleanupKeepingCamera ==
  [running |-> FALSE, cap |-> cap,
   mixer |-> IF sound_enabled /\ mixer = "init" THEN "quit" ELSE mixer]

\* cleanup(): running off, the camera released if there is one, the mixer quit
\* if sound is enabled.  cap.release() and cv2.destroyAllWindows() are taken
\* to return; an exception of pygame.mixer.quit() is swallowed.
cleanup ==
  [running |-> FALSE,
   cap |-> IF cap # None THEN "released" ELSE cap,
   mixer |-> IF sound_enabled /\ mixer = "init" THEN "quit" ELSE mixer]

\* -------------------------------------------------------------------- run
\* The module imports datetime, not ZoneInfo: the name used by the loop's
\* clock overlay is undefined and raises NameError in every tick.
ZoneInfoDefined == FALSE

\* run() up to the loop: the camera is initialised; on failure run returns.
RunStart ==
  /\ ~running
  /\ \E outcome \in CameraOutcomes :
       LET c == initialize_camera(outcome) IN
       /\ cap' = c.cap
       /\ running' = c.ok
       /\ lastRun' = [phase |-> IF c.ok THEN "loop" ELSE "aborted",
                      camera |-> outcome, cause |-> None, ev |-> None,
                      ticks |-> 0, scans |-> 0]
  /\ UNCHANGED <<clock, last_scanned_qr, last_scan_time, sound_enabled,
                 current_display_info, info_display_time, mixer,
                 lastCall, accLog, frame, startup>>

\* What one iteration of the loop meets before the pipeline: a frame, a failed
\* read, a KeyboardInterrupt while waiting, or a collaborator's exception.
TickEvents == {"frame", "read_failed", "interrupt", "raised"}
Keys == {"q", "s", "other"}

\* One iteration of "while self.running", with the try's handlers and the
\* finally clause when the iteration ends the loop; the service answers from
\* VR and RR and a non-suppressed process_qr call blocks for a time in Durs.
\* A KeyboardInterrupt is taken while the loop waits for a frame.  The frame
\* is shown and the key is read only if the clock overlay (ZoneInfo) did not
\* raise.
TickWith(VR, RR, Durs) ==
  /\ running
  /\ \E ev \in TickEvents :
     \E data \in IF ev = "frame" THEN Codes \cup {""} ELSE {""} :
     \E vresp \in IF data # "" THEN VR ELSE {CHOOSE x \in VR : TRUE} :
     \E rresp \in IF data # "" /\ RecordReached(vresp) THEN RR
                  ELSE {CHOOSE x \in RR : TRUE} :
     \E dur \in IF data # "" THEN Durs ELSE {0} :
     \E key \in IF ev = "frame" /\ ZoneInfoDefined THEN Keys ELSE {"other"} :
       LET r == process_qr(data, vresp, rresp)
           scanned == data # ""
           shown == scanned /\ UpdatesDisplay(r.ret)
           now == IF scanned /\ r.accepted THEN clock + dur ELSE clock
           info == IF shown THEN r.ret ELSE current_display_info
           since == IF shown THEN now ELSE info_display_time
           drawn == IF DisplayFresh(info, since, now) THEN RenderInfo(info)
                    ELSE NoOverlay
           cause == CASE ev # "frame" -> ev
                      [] ~ZoneInfoDefined -> "raised"
                      [] key = "q" -> "quit"
                      [] OTHER -> None
           stop == cause # None
       IN
       /\ now <= MaxTime
       /\ r.accepted \/ dur = 0
       /\ clock' = now
       /\ last_scanned_qr' = IF scanned THEN r.last_scanned_qr ELSE last_scanned_qr
       /\ last_scan_time' = IF scanned THEN r.last_scan_time ELSE last_scan_time
       /\ lastCall' = IF scanned THEN CallRecord(r, vresp, rresp) ELSE lastCall
       /\ accLog' = accLog
       /\ current_display_info' = info
       /\ info_display_time' = since
       /\ frame' = IF ev = "frame"
                     THEN [overlay |-> drawn, shown |-> ZoneInfoDefined]
                     ELSE frame
       /\ sound_enabled' = IF ~stop /\ key = "s" THEN ~sound_enabled
                           ELSE sound_enabled
       /\ running' = IF stop THEN cleanup.running ELSE running
       /\ cap' = IF stop THEN cleanup.cap ELSE cap
       /\ mixer' = IF stop THEN cleanup.mixer ELSE mixer
       /\ lastRun' = [phase |-> IF stop THEN "returned" ELSE "loop",
                      camera |-> lastRun.camera,
                      cause |-> cause,
                      ev |-> ev,
                      ticks |-> IF lastRun.ticks < 2 THEN lastRun.ticks + 1 ELSE 2,
                      scans |-> IF scanned /\ lastRun.scans < 2
                                  THEN lastRun.scans + 1 ELSE lastRun.scans]
       /\ startup' = startup

\* A tick of the loop at an arbitrary time.
Tick == TickWith(TimedValidate, TimedRecord, 0..MaxCallDur)

Next ==
  \/ AdvanceClock
  \/ RunStart
  \/ Tick

Spec == Init /\ [][Next]_vars

\* -------------------------------------------------------------- rendering
\* The answers of GET /qr/{id}/validate under SpecRender: every failure
\* and every 200 body that carries employee information.
RenderValidate ==
  { v \in ValidateResponses : v.kind = "ok" => v.empleado_info = "emp" }

\* The answers of POST /qr/{id}/scan under SpecRender: a failure,
\* entries whose event time is any of Timestamps or is left out, and exits
\* with a UTC time, an empty time or none.
RenderRecord ==
  { r \in RecordFailures : r.kind = "status" /\ r.detail = "detail" }
  \cup
  { [kind |-> "ok", es_entrada |-> "true", hora_entrada |-> t,
     hora_salida |-> "missing", detail |-> "n/a"] :
      t \in Timestamps \cup {"missing"} }
  \cup
  { [kind |-> "ok", es_entrada |-> "false", hora_entrada |-> "missing",
     hora_salida |-> t, detail |-> "n/a"] :
      t \in {"2024-01-15T13:00:00Z", "", "missing"} }

\* A tick of the loop under those answers.
TickRendered == TickWith(RenderValidate, RenderRecord, {0})

NextRender ==
  \/ RunStart
  \/ TickRendered

SpecRender == Init /\ [][NextRender]_vars

\* ------------------------------------------------------------------ main
\* What GET /health and GET /info can do, as seen by check_api_connection.
ProbeAnswers == {"ok", "status", "bad_json", "connection_error", "timeout"}

\* The probe's request raised, or its 200 body did not parse.
ProbeRaised(answer) == answer \in {"bad_json", "connection_error", "timeout"}

\* check_api_connection(): False only when a request or the parsing of a 200
\* body raises; a status other than 200 is passed over.
check_api_connection(health, info) ==
  ~ProbeRaised(health) /\ ~ProbeRaised(info)

\* main() up to "if not check_api_connection(): return".
MainProbe ==
  /\ startup.phase = "probe"
  /\ \E health \in ProbeAnswers :
     \E info \in IF ProbeRaised(health) THEN {"ok"} ELSE ProbeAnswers :
       startup' = [phase |-> IF check_api_connection(health, info)
                               THEN "scanner" ELSE "returned",
                   health |-> health,
                   info |-> IF ProbeRaised(health) THEN "not_asked" ELSE info]
  /\ UNCHANGED <<clock, last_scanned_qr, last_scan_time, sound_enabled, running,
                 current_display_info, info_display_time, cap, mixer,
                 lastCall, accLog, lastRun, frame>>

\* main() after the probe: scanner = QRScanner(); scanner.run(), once.
MainRun ==
  /\ startup.phase = "scanner"
  /\ lastRun.phase = "never"
  /\ RunStart

\* The program started through main(): the scanner's fields hold what
\* QRScanner() will give them.
InitMain ==
  /\ QRScanner
  /\ startup = [phase |-> "probe", health |-> None, info |-> None]

NextMain ==
  \/ AdvanceClock
  \/ MainProbe
  \/ MainRun
  \/ Tick

SpecMain == InitMain /\ [][NextMain]_vars

\* ================================================================ claims
\* The most recently accepted call before lastCall.
PrevAccepted == accLog[Len(accLog)]

\* The call ran the pipeline: it returned an outcome, began with
\* validate(code) and gave one cue.
FullPipeline(c) ==
  /\ c.ret # NoResult
  /\ Len(c.calls) >= 1
  /\ c.calls[1] = <<"validate", c.qr_id>>
  /\ Len(c.cues) = 1

\* The call was suppressed: no outcome, no remote call, no cue.
Silent(c) == c.ret = NoResult /\ c.calls = <<>> /\ c.cues = <<>>

\* C1: a call with the code of the previously accepted call is silent (no
\* outcome, no validate, no record, no cue) if and only if fewer than 3 seconds
\* have passed since that call; from exactly 3 seconds on it runs the pipeline.
C1_SameCodeSuppressedWithinThree ==
  (lastCall.qr_id # None /\ accLog # <<>> /\ lastCall.qr_id = PrevAccepted.qr_id)
    => /\ Silent(lastCall) <=> lastCall.time - PrevAccepted.time < 3
       /\ lastCall.time - PrevAccepted.time >= 3 => FullPipeline(lastCall)

\* C1 witness: the same code again exactly 3 seconds later, processed in full.
C1_Witness ==
  /\ lastCall.qr_id # None /\ accLog # <<>>
  /\ lastCall.qr_id = PrevAccepted.qr_id
  /\ lastCall.time - PrevAccepted.time = 3
  /\ FullPipeline(lastCall)

\* C2: a call whose code differs from the most recently accepted code is never
\* suppressed, whatever the elapsed time; so A, B, A within 3 seconds runs the
\* pipeline for A twice.
C2_OtherCodeNeverSuppressed ==
  (lastCall.qr_id # None /\ accLog # <<>> /\ lastCall.qr_id # PrevAccepted.qr_id)
    => FullPipeline(lastCall)

\* C2 witness: A accepted, then B, then A again less than 3 seconds after the
\* first A, validated again.
C2_Witness ==
  /\ Len(accLog) = 2
  /\ accLog[1].qr_id = "A" /\ accLog[2].qr_id = "B" /\ lastCall.qr_id = "A"
  /\ lastCall.time - accLog[1].time < 3
  /\ FullPipeline(lastCall)

\* C3: when validate reports valid = false for an accepted scan (answered by
\* the service or synthesized from a failure), record is not called and the
\* outcome is the rejected one, carrying that validation result.
C3_InvalidNeverRecorded ==
  (lastCall.accepted /\ ~validate_qr_api(lastCall.vresp).valid)
    => /\ \A i \in 1..Len(lastCall.calls) : lastCall.calls[i][1] # "record"
       /\ lastCall.ret = [type |-> "validation",
                          data |-> validate_qr_api(lastCall.vresp),
                          success |-> FALSE]

\* C3 witness: the service answered valid = false and the scan was rejected.
C3_Witness ==
  /\ lastCall.accepted
  /\ lastCall.vresp.kind = "ok" /\ lastCall.vresp.valid = "false"
  /\ lastCall.ret.type = "validation" /\ ~lastCall.ret.success

\* C4: when validate answers valid = true with accion COMPLETADO, record is
\* not called and the outcome is the already-complete one (type validation,
\* success True) carrying the validation result.
C4_CompletedNeverRecorded ==
  (/\ lastCall.accepted
   /\ validate_qr_api(lastCall.vresp).valid
   /\ validate_qr_api(lastCall.vresp).accion = "COMPLETADO")
    => /\ \A i \in 1..Len(lastCall.calls) : lastCall.calls[i][1] # "record"
       /\ lastCall.ret = [type |-> "validation",
                          data |-> validate_qr_api(lastCall.vresp),
                          success |-> TRUE]

\* C4 witness: an accepted scan answered valid = true, COMPLETADO.
C4_Witness ==
  /\ lastCall.accepted
  /\ lastCall.vresp.kind = "ok" /\ lastCall.vresp.valid = "true"
  /\ lastCall.vresp.accion = "COMPLETADO"
  /\ lastCall.ret.type = "validation" /\ lastCall.ret.success

\* C5: a non-suppressed call issues validate(code) exactly once and first, and
\* record(code) at most once, after it and for the same code; nothing is
\* issued again after a failure.
C5_ValidateOnceThenRecordAtMostOnce ==
  lastCall.accepted
    => \/ lastCall.calls = << <<"validate", lastCall.qr_id>> >>
       \/ lastCall.calls = << <<"validate", lastCall.qr_id>>,
                              <<"record", lastCall.qr_id>> >>

\* C5 witness: record failed after a successful validate and neither call was
\* made again.
C5_Witness ==
  /\ lastCall.accepted
  /\ lastCall.ret.type = "scan_error"
  /\ Len(lastCall.calls) = 2

\* C6: a non-suppressed call makes exactly one play_sound call, matching the
\* outcome: rejected -> error, already complete -> warning, recorded ->
\* success, record failed -> error; a suppressed call makes none.
C6_OneCuePerOutcome ==
  lastCall.qr_id # None
    => IF lastCall.ret = NoResult THEN lastCall.cues = <<>>
       ELSE lastCall.cues =
              << CASE lastCall.ret.type = "validation" /\ ~lastCall.ret.success
                        -> "error"
                   [] lastCall.ret.type = "validation" /\ lastCall.ret.success
                        -> "warning"
                   [] lastCall.ret.type = "scan_success" -> "success"
                   [] lastCall.ret.type = "scan_error" -> "error" >>

\* C6 witness: the already-complete outcome with its warning cue.
C6_Witness ==
  /\ lastCall.accepted
  /\ lastCall.ret.type = "validation" /\ lastCall.ret.success
  /\ lastCall.cues = <<"warning">>

\* A failure mode of validate: timeout, connection failure, non-200 status, or
\* a 200 whose body is unparseable or wrongly shaped (not an object, or an
\* object without the 'valid' field).
ValidateFailed(v) ==
  \/ v.kind \in {"timeout", "connection_error", "status", "bad_json", "not_object"}
  \/ v.kind = "ok" /\ v.valid = "missing"

\* A failure mode of record: timeout, connection failure, non-200 status, or a
\* 200 whose body is unparseable or not an object (an object without
\* es_entrada is read as an exit, not as a failure).
RecordCallFailed(r) ==
  r.kind \in {"timeout", "connection_error", "status", "bad_json", "not_object"}

\* C7: under every failure mode of validate or record a non-suppressed call
\* returns an outcome: a validate failure the rejected one with valid = false
\* and action ERROR (a timeout with a timeout message), a record failure the
\* record-failed one with success = false.
C7_FailuresBecomeNegativeOutcomes ==
  lastCall.accepted
    => /\ lastCall.ret # NoResult
       /\ ValidateFailed(lastCall.vresp)
            => /\ lastCall.ret.type = "validation" /\ ~lastCall.ret.success
               /\ ~lastCall.ret.data.valid
               /\ lastCall.ret.data.accion = "ERROR"
               /\ lastCall.vresp.kind = "timeout"
                    => lastCall.ret.data.message
                         = "Timeout: No se pudo conectar con el servidor"
       /\ (lastCall.rresp # NoResponse /\ RecordCallFailed(lastCall.rresp))
            => /\ lastCall.ret.type = "scan_error" /\ ~lastCall.ret.success
               /\ ~lastCall.ret.data.success

\* C8: every accepted call leaves the cooldown slot at (code, now) whatever
\* validate and record answer, so the same code again less than 3 seconds
\* after a call that ended rejected or record-failed is suppressed and issues
\* no remote call.
C8_FailedCallConsumesCooldown ==
  /\ lastCall.accepted
       => last_scanned_qr = lastCall.qr_id /\ last_scan_time = lastCall.time
  /\ (/\ lastCall.qr_id # None /\ accLog # <<>>
      /\ ~PrevAccepted.success
      /\ lastCall.qr_id = PrevAccepted.qr_id
      /\ lastCall.time - PrevAccepted.time < 3)
       => Silent(lastCall)

\* C8 witness: a code whose scan failed, presented again within the window and
\* silently dropped.
C8_Witness ==
  /\ lastCall.qr_id # None /\ accLog # <<>>
  /\ ~PrevAccepted.success
  /\ lastCall.qr_id = PrevAccepted.qr_id
  /\ lastCall.time - PrevAccepted.time < 3
  /\ lastCall.time > PrevAccepted.time
  /\ Silent(lastCall)

\* C9: every validation result with valid = false has no employee information
\* and action ERROR, whatever the service answered.
C9_InvalidHasNoEmployeeAndActionError ==
  lastCall.accepted
    => LET validation == validate_qr_api(lastCall.vresp)
       IN ~validation.valid
            => validation.empleado_info = None /\ validation.accion = "ERROR"

FrameTick ==
  lastRun' # lastRun /\ lastRun'.ev = "frame" /\ lastRun'.ticks > 0

\* C11: every tick that reads a frame at time u shows the displayed outcome
\* set at t when u - t < 5 and shows no outcome when u - t >= 5; a tick with
\* no code or with a suppressed code leaves the outcome and t as they were.
C11_ShownForFiveSeconds ==
  [][FrameTick
       => /\ frame'.shown
          /\ frame'.overlay
               = IF /\ current_display_info' # NoResult
                    /\ clock' - info_display_time' < 5
                   THEN RenderInfo(current_display_info')
                   ELSE NoOverlay
          /\ (lastCall' = lastCall \/ lastCall'.ret = NoResult)
               => UNCHANGED <<current_display_info, info_display_time>>]_vars

\* C12: the displayed outcome and its start time change only in a tick whose
\* process_qr call returned an outcome, which becomes the displayed outcome
\* with the start time now; a tick whose call was suppressed leaves both.
C12_DisplayChangesOnlyWithOutcome ==
  [][/\ (\/ current_display_info' # current_display_info
         \/ info_display_time' # info_display_time)
       => /\ lastCall' # lastCall
          /\ lastCall'.ret # NoResult
     /\ (lastCall' # lastCall /\ lastCall'.ret = NoResult)
       => UNCHANGED <<current_display_info, info_display_time>>
     /\ (lastCall' # lastCall /\ lastCall'.ret # NoResult)
       => /\ current_display_info' = lastCall'.ret
          /\ info_display_time' = clock']_vars

\* C12 witness: a tick's call was suppressed while an earlier outcome was on
\* display, and the display still has the earlier start time.
C12_Witness ==
  /\ lastCall.qr_id # None /\ ~lastCall.accepted
  /\ lastRun.scans > 0
  /\ current_display_info # NoResult
  /\ info_display_time < lastCall.time

\* C13: a tick that reads a frame runs to its end (the frame is shown, the key
\* is checked) and, unless the quit key was pressed, leaves the loop running.
C13_FrameTickCompletesAndLoopGoesOn ==
  (lastRun.ticks > 0 /\ lastRun.ev = "frame")
    => /\ frame.shown
       /\ lastRun.cause \in {None, "quit"}
       /\ lastRun.cause = None => running

\* The startup probe was made and did not get 200 with a body from both
\* GET /health and GET /info.
ProbeAbsent ==
  /\ startup.phase \in {"scanner", "returned"}
  /\ ~(startup.health = "ok" /\ startup.info = "ok")

\* C15: when the startup probe is absent the loop is never started: no camera
\* is opened, run() is not entered and process_qr is never called.
C15_NoLoopWithoutProbe ==
  ProbeAbsent => cap = None /\ lastRun = NoRun /\ lastCall = NoCall

\* C16: for every 200 record response the result is a success whose action
\* is ENTRADA with the event time of hora_entrada when es_entrada is true, and
\* SALIDA with the event time of hora_salida when es_entrada is false or
\* missing.
C16_EntryOrExitFromEsEntrada ==
  (lastCall.accepted /\ lastCall.rresp.kind = "ok")
    => /\ lastCall.ret.type = "scan_success"
       /\ lastCall.ret.data.success
       /\ IF lastCall.rresp.es_entrada = "true"
            THEN /\ lastCall.ret.data.accion = "ENTRADA"
                 /\ lastCall.ret.data.fecha_escaneo
                      = Get(lastCall.rresp.hora_entrada, None)
            ELSE /\ lastCall.ret.data.accion = "SALIDA"
                 /\ lastCall.ret.data.fecha_escaneo
                      = Get(lastCall.rresp.hora_salida, None)

\* C16 witness: a 200 body without es_entrada that carries both times was
\* recorded as an exit at hora_salida.
C16_Witness ==
  /\ lastCall.accepted /\ lastCall.rresp.kind = "ok"
  /\ lastCall.rresp.es_entrada = "missing"
  /\ lastCall.rresp.hora_entrada = "h_in" /\ lastCall.rresp.hora_salida = "h_out"
  /\ lastCall.ret.data.accion = "SALIDA"
  /\ lastCall.ret.data.fecha_escaneo = "h_out"

\* The outcome on display is a recorded scan and the last frame drew it.
RecordedDrawn ==
  /\ frame.overlay # NoOverlay
  /\ current_display_info.type = "scan_success"

\* The clock lines of the drawn overlay.
ClockLines ==
  { i \in 1..Len(frame.overlay.lines) : frame.overlay.lines[i].icon = "clock" }

\* C17: a recorded outcome whose event time is a UTC instant is drawn with the
\* time of day of the UTC-5 display zone: 2024-01-15T13:00:00Z gives the time
\* line 08:00:00, and in general the hour drawn is the UTC hour less 5.
C17_UtcDrawnInLocalZone ==
  (/\ RecordedDrawn
   /\ current_display_info.data.fecha_escaneo
        \in {"2024-01-15T13:00:00Z", "2024-01-15T03:30:15Z",
             "2024-01-15T13:00:00+00:00"})
    => LET fecha == current_display_info.data.fecha_escaneo
           utc == IsoFields(fecha)
           local == Two((utc.hour + 24 - 5) % 24) \o ":" \o Two(utc.minute)
                      \o ":" \o Two(utc.second)
       IN /\ \E i \in ClockLines : frame.overlay.lines[i].text = local
          /\ fecha = "2024-01-15T13:00:00Z"
               => \E i \in ClockLines : frame.overlay.lines[i].text = "08:00:00"

\* The event times that are strings but not ISO times.
MalformedTimes ==
  {"", "not-a-date", "2024-01-15T25:00:00Z", "h_in", "h_out"}

\* C18 as stated: a recorded outcome whose event time is malformed, the empty
\* string included, is drawn with a time line carrying the string as it is.
C18_MalformedDrawnRaw ==
  (RecordedDrawn /\ current_display_info.data.fecha_escaneo \in MalformedTimes)
    => \E i \in ClockLines :
         frame.overlay.lines[i].text = current_display_info.data.fecha_escaneo

\* C18, amended: in the overlay drawn for a recorded outcome whose event time
\* is malformed, a non-empty string gives exactly one time line, carrying the
\* string as it is, and the empty string gives no time line.
C18_MalformedNonEmptyDrawnRaw ==
  (RecordedDrawn /\ current_display_info.data.fecha_escaneo \in MalformedTimes)
    => LET fecha == current_display_info.data.fecha_escaneo
       IN IF fecha = "" THEN ClockLines = {}
          ELSE /\ Cardinality(ClockLines) = 1
               /\ \A i \in ClockLines : frame.overlay.lines[i].text = fecha

\* C18 witness: an event time with an hour out of range, drawn as it came.
C18_Witness ==
  /\ RecordedDrawn
  /\ current_display_info.data.fecha_escaneo = "2024-01-15T25:00:00Z"
  /\ \E i \in ClockLines : frame.overlay.lines[i].text = "2024-01-15T25:00:00Z"

\* C19: the colour drawn follows the kind of the outcome: recorded ENTRADA
\* green, recorded SALIDA yellow, already complete magenta, rejected red,
\* record failed red; the colours are pairwise different, so a rejected or
\* record-failed outcome never has the colour of another kind.
C19_ColorByOutcomeKind ==
  /\ Cardinality({Green, Yellow, Magenta, Red}) = 4
  /\ frame.overlay # NoOverlay
       => LET o == current_display_info
          IN frame.overlay.color =
               CASE o.type = "scan_success" /\ o.data.accion = "ENTRADA"
                      -> <<0, 255, 0>>
                 [] o.type = "scan_success" /\ o.data.accion = "SALIDA"
                      -> <<0, 255, 255>>
                 [] o.type = "validation" /\ o.success -> <<255, 0, 255>>
                 [] o.type = "validation" /\ ~o.success -> <<0, 0, 255>>
                 [] o.type = "scan_error" -> <<0, 0, 255>>

\* C19 witness: a rejected scan whose body named the action ENTRADA, drawn in
\* red.
C19_Witness ==
  /\ frame.overlay # NoOverlay
  /\ current_display_info.type = "validation" /\ ~current_display_info.success
  /\ current_display_info.data.accion = "ENTRADA"
  /\ frame.overlay.color = <<0, 0, 255>>

\* C20: when the camera cannot be acquired, run() returns before the loop: the
\* scanner is not running, no frame is read and process_qr, hence validate and
\* record, is not called in that run.
C20_NoLoopWithoutCamera ==
  lastRun.camera \in {"not_opened", "ctor_raised", "set_raised"}
    => /\ ~running
       /\ lastRun.phase = "aborted"
       /\ lastRun.ticks = 0
       /\ lastRun.scans = 0

\* C20 witness: a run() whose camera did not open, after an earlier run() that
\* had scanned a code.
C20_Witness ==
  /\ lastRun.camera = "not_opened"
  /\ lastRun.phase = "aborted"
  /\ lastCall.qr_id # None
  /\ ~running

\* C21: an accepted scan validated as valid with an action other than
\* COMPLETADO (ENTRADA, SALIDA, or none, read as UNKNOWN) calls record(code)
\* exactly once, after validate; the outcome is the recorded one when record
\* answers 200 with a body and the record-failed one otherwise.
C21_ValidNotCompletedIsRecordedOnce ==
  (/\ lastCall.accepted
   /\ lastCall.vresp.kind = "ok" /\ lastCall.vresp.valid = "true"
   /\ lastCall.vresp.accion \in {"ENTRADA", "SALIDA", "missing"})
    => /\ lastCall.calls = << <<"validate", lastCall.qr_id>>,
                              <<"record", lastCall.qr_id>> >>
       /\ IF lastCall.rresp.kind = "ok"
            THEN lastCall.ret = [type |-> "scan_success",
                                 data |-> record_scan_api(lastCall.rresp),
                                 success |-> TRUE]
            ELSE /\ lastCall.ret.type = "scan_error"
                 /\ ~lastCall.ret.success
                 /\ ~lastCall.ret.data.success

\* C21 witness: a valid answer that names no action, recorded once, the
\* record call failing.
C21_Witness ==
  /\ lastCall.accepted
  /\ lastCall.vresp.kind = "ok" /\ lastCall.vresp.valid = "true"
  /\ lastCall.vresp.accion = "missing"
  /\ lastCall.rresp.kind = "timeout"
  /\ Len(lastCall.calls) = 2
  /\ lastCall.ret.type = "scan_error"

\* The code and time of the most recent accepted call, ("", 0) before any.
MostRecentAccepted ==
  IF lastCall.accepted
    THEN [qr_id |-> lastCall.qr_id, time |-> lastCall.time]
  ELSE IF accLog # <<>>
    THEN [qr_id |-> PrevAccepted.qr_id, time |-> PrevAccepted.time]
  ELSE [qr_id |-> "", time |-> 0]

\* C22: a suppressed call leaves last_scanned_qr and last_scan_time as they
\* were; the two always are the code and time of the most recent accepted
\* call, and a call with that code is accepted again exactly when 3 seconds
\* have passed since that acceptance, whatever was sighted in between.
C22_WindowFromLastAcceptance ==
  /\ [](/\ last_scanned_qr = MostRecentAccepted.qr_id
        /\ last_scan_time = MostRecentAccepted.time
        /\ (/\ lastCall.qr_id # None /\ accLog # <<>>
            /\ lastCall.qr_id = PrevAccepted.qr_id)
             => (lastCall.accepted <=> lastCall.time - PrevAccepted.time >= 3))
  /\ [][(lastCall' # lastCall /\ ~lastCall'.accepted)
          => UNCHANGED <<last_scanned_qr, last_scan_time>>]_vars

\* C22 witness: a code sighted again after its acceptance and suppressed, the
\* cooldown slot still holding the time of the acceptance.
C22_Witness ==
  /\ lastCall.qr_id # None /\ ~lastCall.accepted
  /\ accLog # <<>>
  /\ lastCall.time = PrevAccepted.time + 2
  /\ last_scanned_qr = lastCall.qr_id
  /\ last_scan_time = PrevAccepted.time

\* C23: every successful result of record_scan_api has is_first_scan true
\* exactly when its action is ENTRADA and false exactly when it is SALIDA,
\* whatever the 200 body carries.
C23_FirstScanAgreesWithAction ==
  (lastCall.accepted /\ lastCall.rresp.kind = "ok")
    => LET scan_result == lastCall.ret.data
       IN /\ scan_result.success
          /\ scan_result.is_first_scan = TRUE <=> scan_result.accion = "ENTRADA"
          /\ scan_result.is_first_scan = FALSE <=> scan_result.accion = "SALIDA"
====
